---------------------------- MODULE Spec2Model ----------------------------
(***************************************************************************)
(* TOU Writer (custom_components/tou_writer/__init__.py).                  *)
(*                                                                         *)
(* The module models                                                       *)
(*   - _parse_time_to_minutes and _build_tariff (rate periods -> tariff),  *)
(*   - _send_to_teslemetry and _send_with_retry (POST with retry),         *)
(*   - _verify_tariff (GET site_info and compare the buy-side table),      *)
(*   - async_handle_push_tou (the push_tou service handler), of which      *)
(*     several invocations can be in flight in the one event loop.         *)
(*                                                                         *)
(* Representation of the Python values:                                    *)
(*   - a time string is a sequence of one-character strings, so that       *)
(*     strip, split and int() are computed character by character;         *)
(*   - a price given in cents/kWh is an integer number of 10^-5 cent       *)
(*     (30.0 c/kWh = 3000000) and stands for the double nearest to that    *)
(*     decimal; a price in currency units is an integer number of 10^-6    *)
(*     (0.30 = 300000), the precision round(x, 6) keeps, and stands for    *)
(*     the double nearest to it.  Where the binary value decides (a        *)
(*     decimal tie of round, a difference of exactly 0.001) the doubles    *)
(*     are computed exactly, on integers of any size;                      *)
(*   - a decoded JSON value is a tagged tuple <<"null">>, <<"num", n>>,    *)
(*     <<"str", s>>, <<"list", length>> or <<"obj", function>>; None or a  *)
(*     str (plan_name) is <<"null">> or <<"str", s>>;                      *)
(*   - a function that can raise returns [raised |-> BOOLEAN, ...].        *)
(***************************************************************************)
EXTENDS Integers, Sequences, FiniteSets, TLC

(***************************************************************************)
(* Program constants                                                       *)
(***************************************************************************)
MAX_RETRIES == 3

RETRY_DELAYS == <<2, 4, 8>>

RETRIABLE_STATUS_CODES == {429, 500, 502, 503, 504}

PERMANENT_FAILURE_CODES == {400, 401, 403}

DEFAULT_PLAN_NAME == "Custom TOU (TOU Writer)"

\* range(48): the number of half-hour slots of a day
NumSlots == 48

\* m += 30: the stamping step and the slot length, in minutes
SlotMinutes == 30

\* end "00:00" is replaced by 1440
EndOfDay == 1440

\* asyncio.sleep(2) before the readback
SettleDelay == 2

\* abs(stored_value - sent_value) > 0.001, in units of 10^-6
Tolerance == 1000

(***************************************************************************)
(* Python str and int() on sequences of characters                         *)
(***************************************************************************)
Digit == <<"0", "1", "2", "3", "4", "5", "6", "7", "8", "9">>

\* the decimal digits int() reads (Unicode category Nd), one row per script,
\* each in the order 0..9: ASCII and the scripts whose digits a string
\* literal can hold here
DecimalDigits ==
    <<Digit,
      <<"۰", "۱", "۲", "۳", "۴", "۵", "۶", "۷", "۸", "۹">>,
      <<"߀", "߁", "߂", "߃", "߄", "߅", "߆", "߇", "߈", "߉">>,
      <<"০", "১", "২", "৩", "৪", "৫", "৬", "৭", "৮", "৯">>,
      <<"૦", "૧", "૨", "૩", "૪", "૫", "૬", "૭", "૮", "૯">>,
      <<"௦", "௧", "௨", "௩", "௪", "௫", "௬", "௭", "௮", "௯">>,
      <<"೦", "೧", "೨", "೩", "೪", "೫", "೬", "೭", "೮", "೯">>,
      <<"෦", "෧", "෨", "෩", "෪", "෫", "෬", "෭", "෮", "෯">>,
      <<"໐", "໑", "໒", "໓", "໔", "໕", "໖", "໗", "໘", "໙">>,
      <<"႐", "႑", "႒", "႓", "႔", "႕", "႖", "႗", "႘", "႙">>,
      <<"០", "១", "២", "៣", "៤", "៥", "៦", "៧", "៨", "៩">>,
      <<"᧐", "᧑", "᧒", "᧓", "᧔", "᧕", "᧖", "᧗", "᧘", "᧙">>,
      <<"᪀", "᪁", "᪂", "᪃", "᪄", "᪅", "᪆", "᪇", "᪈", "᪉">>,
      <<"᪐", "᪑", "᪒", "᪓", "᪔", "᪕", "᪖", "᪗", "᪘", "᪙">>,
      <<"᮰", "᮱", "᮲", "᮳", "᮴", "᮵", "᮶", "᮷", "᮸", "᮹">>,
      <<"꣐", "꣑", "꣒", "꣓", "꣔", "꣕", "꣖", "꣗", "꣘", "꣙">>,
      <<"꧐", "꧑", "꧒", "꧓", "꧔", "꧕", "꧖", "꧗", "꧘", "꧙">>,
      <<"꧰", "꧱", "꧲", "꧳", "꧴", "꧵", "꧶", "꧷", "꧸", "꧹">>,
      <<"꯰", "꯱", "꯲", "꯳", "꯴", "꯵", "꯶", "꯷", "꯸", "꯹">>>>

IsDigit(c) ==
    \E row \in 1..Len(DecimalDigits) : \E i \in 1..10 :
        DecimalDigits[row][i] = c

DigitVal(c) ==
    (CHOOSE i \in 1..10 :
        \E row \in 1..Len(DecimalDigits) : DecimalDigits[row][i] = c) - 1

\* str.isspace(), the characters str.strip() removes: tab, line feed,
\* vertical tab, form feed, carriage return, the separators U+001C..U+001F,
\* blank, U+0085, U+00A0, U+1680 (U+2000..U+200A, U+2028, U+2029, U+202F,
\* U+205F and U+3000 are whitespace too, but no string literal can hold
\* them here)
IsSpace(c) ==
    c \in {"\t", "\n", "", "\f", "\r", "", "", "", "",
           " ", "", " ", " "}

\* the whitespace int() skips around the number: that of str.isspace()
\* without the separators U+001C..U+001F
IsIntSpace(c) == IsSpace(c) /\ c \notin {"", "", "", ""}

RECURSIVE LStrip(_)
LStrip(s) ==
    IF s # <<>> /\ IsSpace(Head(s)) THEN LStrip(Tail(s)) ELSE s

RECURSIVE RStrip(_)
RStrip(s) ==
    IF s # <<>> /\ IsSpace(s[Len(s)])
    THEN RStrip(SubSeq(s, 1, Len(s) - 1))
    ELSE s

\* str.strip()
Strip(s) == RStrip(LStrip(s))

\* str.split(sep): the fields between the separators, empty fields kept.
\* Field k lies between the (k-1)th and the kth separator, the ends of the
\* string counting as separator 0 and the last one.
Split(s, sep) ==
    LET seps     == {i \in 1..Len(s) : s[i] = sep}
        n        == Cardinality(seps)
        bound(k) == IF k = 0 THEN 0
                    ELSE IF k = n + 1 THEN Len(s) + 1
                    ELSE CHOOSE i \in seps :
                             Cardinality({j \in seps : j < i}) = k - 1
    IN [k \in 1..(n + 1) |-> SubSeq(s, bound(k - 1) + 1, bound(k) - 1)]

\* sys.int_info.default_max_str_digits: int() raises ValueError for a
\* string of more decimal digits
MaxStrDigits == 4300

\* the value of a digit string in which single underscores may stand (the
\* inputs keep it below 2^31, the integers of TLC)
RECURSIVE DigitsValue(_, _)
DigitsValue(s, acc) ==
    IF s = <<>> THEN acc
    ELSE IF Head(s) = "_" THEN DigitsValue(Tail(s), acc)
    ELSE DigitsValue(Tail(s), 10 * acc + DigitVal(Head(s)))

\* the argument of int() without the whitespace around it
RECURSIVE IntStrip(_)
IntStrip(s) ==
    IF s # <<>> /\ IsIntSpace(Head(s)) THEN IntStrip(Tail(s))
    ELSE IF s # <<>> /\ IsIntSpace(s[Len(s)])
    THEN IntStrip(SubSeq(s, 1, Len(s) - 1))
    ELSE s

\* digits, with single underscores between digits only
IsDigitString(body) ==
    /\ body # <<>>
    /\ IsDigit(body[1])
    /\ IsDigit(body[Len(body)])
    /\ \A i \in 1..Len(body) : IsDigit(body[i]) \/ body[i] = "_"
    /\ \A i \in 1..(Len(body) - 1) : ~(body[i] = "_" /\ body[i + 1] = "_")

\* int(str): surrounding whitespace, an optional sign, digits with single
\* underscores between them, at most MaxStrDigits digits; anything else
\* raises ValueError
PyInt(s) ==
    LET \* the digits from the first that is not a zero on: the zeros and
        \* underscores before it add nothing to the value
        Significant(body, sig) ==
            IF sig = {} THEN <<>>
            ELSE SubSeq(body, CHOOSE i \in sig : \A j \in sig : i <= j,
                        Len(body))
        Magnitude(body) ==
            DigitsValue(
                Significant(body, {i \in 1..Len(body) :
                                      body[i] # "_" /\ DigitVal(body[i]) # 0}),
                0)
        Number(negative, body) ==
            IF ~IsDigitString(body)
               \/ Cardinality({i \in 1..Len(body) : IsDigit(body[i])})
                      > MaxStrDigits
            THEN [raised |-> TRUE, value |-> 0]
            ELSE [raised |-> FALSE,
                  value  |-> (IF negative THEN 0 - 1 ELSE 1) * Magnitude(body)]
        Signed(t) ==
            IF t # <<>> /\ Head(t) \in {"-", "+"}
            THEN Number(Head(t) = "-", Tail(t))
            ELSE Number(FALSE, t)
    IN Signed(IntStrip(s))

\* 'HH:MM' -> minutes since midnight; no range check is applied
_parse_time_to_minutes(time_str) ==
    LET Minutes(hours, mins) ==
            IF hours.raised \/ mins.raised
            THEN [raised |-> TRUE, value |-> 0]
            ELSE [raised |-> FALSE, value |-> hours.value * 60 + mins.value]
        Fields(parts) ==
            IF Len(parts) # 2 THEN [raised |-> TRUE, value |-> 0]
            ELSE Minutes(PyInt(parts[1]), PyInt(parts[2]))
    IN Fields(Split(Strip(time_str), ":"))

(***************************************************************************)
(* Naturals of any size: little-endian sequences of limbs below LimbBase,  *)
(* without leading zero limbs (<<>> is 0)                                  *)
(***************************************************************************)
LimbBits == 15

LimbBase == 32768

RECURSIVE Pow2(_)
Pow2(n) == IF n = 0 THEN 1 ELSE 2 * Pow2(n - 1)

RECURSIVE IntBitLen(_)
IntBitLen(n) == IF n = 0 THEN 0 ELSE 1 + IntBitLen(n \div 2)

RECURSIVE BigTrim(_)
BigTrim(a) ==
    IF a # <<>> /\ a[Len(a)] = 0 THEN BigTrim(SubSeq(a, 1, Len(a) - 1)) ELSE a

RECURSIVE BigOf(_)
BigOf(n) == IF n = 0 THEN <<>> ELSE <<n % LimbBase>> \o BigOf(n \div LimbBase)

\* a * k + carry, for 0 <= k <= LimbBase
RECURSIVE BigMulAdd(_, _, _)
BigMulAdd(a, k, carry) ==
    IF a = <<>> THEN BigOf(carry)
    ELSE LET t == Head(a) * k + carry
         IN <<t % LimbBase>> \o BigMulAdd(Tail(a), k, t \div LimbBase)

BigMul(a, k) == BigTrim(BigMulAdd(a, k, 0))

\* a * 2^n
RECURSIVE BigShl(_, _)
BigShl(a, n) ==
    IF a = <<>> \/ n = 0 THEN a
    ELSE IF n >= LimbBits THEN BigShl(<<0>> \o a, n - LimbBits)
    ELSE BigMul(a, Pow2(n))

\* a + b
RECURSIVE BigAddLoop(_, _, _)
BigAddLoop(a, b, carry) ==
    IF a = <<>> /\ b = <<>> THEN BigOf(carry)
    ELSE LET t == (IF a = <<>> THEN 0 ELSE Head(a))
                  + (IF b = <<>> THEN 0 ELSE Head(b)) + carry
         IN <<t % LimbBase>>
            \o BigAddLoop(IF a = <<>> THEN a ELSE Tail(a),
                          IF b = <<>> THEN b ELSE Tail(b), t \div LimbBase)

BigAdd(a, b) == BigTrim(BigAddLoop(a, b, 0))

\* a - b, for a >= b
RECURSIVE BigSubLoop(_, _, _)
BigSubLoop(a, b, borrow) ==
    IF a = <<>> THEN <<>>
    ELSE LET t == Head(a) - (IF b = <<>> THEN 0 ELSE Head(b)) - borrow
         IN <<t % LimbBase>>
            \o BigSubLoop(Tail(a), IF b = <<>> THEN b ELSE Tail(b),
                          IF t < 0 THEN 1 ELSE 0)

BigSub(a, b) == BigTrim(BigSubLoop(a, b, 0))

\* a < b
RECURSIVE BigLess(_, _)
BigLess(a, b) ==
    IF Len(a) # Len(b) THEN Len(a) < Len(b)
    ELSE IF a = <<>> THEN FALSE
    ELSE IF a[Len(a)] # b[Len(b)] THEN a[Len(a)] < b[Len(b)]
    ELSE BigLess(SubSeq(a, 1, Len(a) - 1), SubSeq(b, 1, Len(b) - 1))

\* one step of the long division: the limb lo under the result hi of the
\* limbs above it
BigDivStep(hi, lo, d) ==
    LET t == hi.r * LimbBase + lo
    IN [q |-> <<t \div d>> \o hi.q, r |-> t % d]

\* quotient and remainder of a by d, for 0 < d <= LimbBase
RECURSIVE BigDivLoop(_, _)
BigDivLoop(a, d) ==
    IF a = <<>> THEN [q |-> <<>>, r |-> 0]
    ELSE BigDivStep(BigDivLoop(Tail(a), d), Head(a), d)

BigTrimQuotient(res) == [q |-> BigTrim(res.q), r |-> res.r]

BigDivMod(a, d) == BigTrimQuotient(BigDivLoop(a, d))

\* floor(a / 2^n)
BigShr(a, n) ==
    LET limbs == n \div LimbBits
    IN IF limbs >= Len(a) THEN <<>>
       ELSE BigDivMod(SubSeq(a, limbs + 1, Len(a)), Pow2(n % LimbBits)).q

BigBitLen(a) ==
    IF a = <<>> THEN 0
    ELSE LimbBits * (Len(a) - 1) + IntBitLen(a[Len(a)])

BigIsOdd(a) == a # <<>> /\ a[1] % 2 = 1

(***************************************************************************)
(* IEEE 754 binary64 (the Python float), round to nearest, ties to even.   *)
(* A double is [neg, m, e] and stands for (-1)^neg * m * 2^-e, with m a    *)
(* natural of at most 53 bits (2^53 itself may stand after a round up).    *)
(* The values met here are far from the subnormal and the overflow range.  *)
(***************************************************************************)
MantissaBits == 53

\* q or q + 1, for a quotient q whose remainder is twice_rem / 2 of den
RoundHalfEven(q, twice_rem, den) ==
    IF BigLess(den, twice_rem) \/ (twice_rem = den /\ BigIsOdd(q))
    THEN BigAdd(q, <<1>>)
    ELSE q

\* quotient and remainder of n * 2^t by d1 * d2, for 0 < d1, d2 <= LimbBase,
\* by d1 first and by d2 next
QuotFirst(first, d1, d2) ==
    [q |-> BigDivMod(first.q, d2).q,
     r |-> BigDivMod(first.q, d2).r * d1 + first.r]

Quot(n, t, d1, d2) == QuotFirst(BigDivMod(BigShl(n, t), d1), d1, d2)

\* the binary scale at which the quotient of n by d1 * d2 has 53 bits
PickScale(n, d1, d2, est) ==
    CHOOSE s \in {est - 1, est, est + 1} :
        s >= 0 /\ BigBitLen(Quot(n, s, d1, d2).q) = MantissaBits

\* the quotient res by d at scale e, rounded to the nearest whole
RoundedQuotient(res, e, d) ==
    [neg |-> FALSE,
     m   |-> RoundHalfEven(res.q, BigOf(2 * res.r), BigOf(d)),
     e   |-> e]

NearestAtScale(n, e, d1, d2, t) ==
    RoundedQuotient(Quot(n, t, d1, d2), e + t, d1 * d2)

\* the double nearest to n * 2^-e / (d1 * d2), for a natural n > 0 and
\* 0 < d1, d2 <= LimbBase: the quotient is taken at the binary scale that
\* gives it 53 bits
NearestQuotient(n, e, d1, d2) ==
    NearestAtScale(n, e, d1, d2,
        PickScale(n, d1, d2,
                  MantissaBits - BigBitLen(n) + IntBitLen(d1 * d2)))

\* the double nearest to the decimal n / (d1 * d2), for an integer n
FloatOfDecimal(n, d1, d2) ==
    IF n = 0 THEN [neg |-> FALSE, m |-> <<>>, e |-> 0]
    ELSE [NearestQuotient(BigOf(IF n < 0 THEN 0 - n ELSE n), 0, d1, d2)
             EXCEPT !.neg = n < 0]

\* x / d on doubles, for a whole d in 1..LimbBase
FloatDiv(x, d) ==
    IF x.m = <<>> THEN x
    ELSE [NearestQuotient(x.m, x.e, d, 1) EXCEPT !.neg = x.neg]

\* the natural m at scale e, cut to its top bits q by dropping extra bits
\* and rounded
FloatFromTop(neg, m, e, extra, q) ==
    [neg |-> neg,
     m   |-> RoundHalfEven(q, BigShl(BigSub(m, BigShl(q, extra)), 1),
                           BigShl(<<1>>, extra)),
     e   |-> e - extra]

FloatDropBits(neg, m, e, extra) ==
    IF extra <= 0 THEN [neg |-> neg, m |-> m, e |-> e]
    ELSE FloatFromTop(neg, m, e, extra, BigShr(m, extra))

\* [neg, m, e] with m of any size, rounded to the 53 bits of a double
FloatOfBig(d) == FloatDropBits(d.neg, d.m, d.e, BigBitLen(d.m) - MantissaBits)

\* xm - ym at scale e with the signs given: [neg, m, e], m of any size
SignedSub(xneg, yneg, xm, ym, e) ==
    IF xneg # yneg THEN [neg |-> xneg, m |-> BigAdd(xm, ym), e |-> e]
    ELSE IF BigLess(xm, ym) THEN [neg |-> ~xneg, m |-> BigSub(ym, xm), e |-> e]
    ELSE [neg |-> xneg, m |-> BigSub(xm, ym), e |-> e]

AlignedSub(x, y, e) ==
    SignedSub(x.neg, y.neg, BigShl(x.m, e - x.e), BigShl(y.m, e - y.e), e)

\* x - y on doubles: the exact difference, rounded
FloatSub(x, y) ==
    FloatOfBig(AlignedSub(x, y, IF x.e > y.e THEN x.e ELSE y.e))

\* abs(x) > y on doubles, for y >= 0
FloatAbsGreater(x, y) ==
    LET e == IF x.e > y.e THEN x.e ELSE y.e
    IN BigLess(BigShl(y.m, e - y.e), BigShl(x.m, e - x.e))

(***************************************************************************)
(* _build_tariff                                                           *)
(***************************************************************************)
\* q, or q + 1, as the double dbl lies below or above the tie; the even one
\* of the two when the double is the tie
RoundToSide(q, tie, dbl) ==
    IF BigLess(tie, dbl) THEN q + 1
    ELSE IF BigLess(dbl, tie) THEN q
    ELSE IF q % 2 = 0 THEN q ELSE q + 1

\* the double y against the tie p / 10^7, as y.m * 10^7 against p * 2^y.e
RoundTie(p, y) ==
    RoundToSide(p \div 10, BigShl(BigOf(p), y.e),
                BigMul(BigMul(y.m, 10000), 1000))

\* round(cents / 100.0, 6) for cents >= 0: from 10^-5 cent to 10^-6 currency
\* unit, i.e. a division by 10 rounded to the nearest integer.  The double
\* cents / 100.0 differs from the decimal by less than 10^-15 of its value,
\* so it is on the decimal's side of every tie unless the decimal is a tie
\* itself; then round() goes to the side of the tie the double lies on, and
\* to the even neighbour when the double is the tie exactly.
RoundCents(p) ==
    IF p % 10 > 5 THEN p \div 10 + 1
    ELSE IF p % 10 < 5 THEN p \div 10
    ELSE RoundTie(p, FloatDiv(FloatOfDecimal(p, 100, 1000), 100))

\* round(cents / 100.0, 6); division and round are symmetric in the sign
RoundDollars(p) ==
    (IF p < 0 THEN 0 - 1 ELSE 1) * RoundCents(IF p < 0 THEN 0 - p ELSE p)
\* d[k] = v on a Python dict
DictSet(d, k, v) == [x \in DOMAIN d \cup {k} |-> IF x = k THEN v ELSE d[x]]

\* StampMarks carrying a rate whose end is not after its start over midnight
StampMarksWrapping(start_min, end_min) ==
    LET last == IF start_min < end_min THEN end_min ELSE end_min + 1440
    IN {start_min + SlotMinutes * k :
           k \in 0..((last - start_min - 1) \div SlotMinutes)}

\* the minute marks visited by
\*   m = start_min; while m < end_min: ...; m += 30
StampMarks(start_min, end_min) ==
    IF start_min < end_min
    THEN {start_min + SlotMinutes * k :
             k \in 0..((end_min - start_min - 1) \div SlotMinutes)}
    ELSE {}

\* minute_prices after that loop has set minute_prices[m] = price at each mark
StampLoop(minute_prices, start_min, end_min, price) ==
    LET marks == StampMarks(start_min, end_min)
    IN [m \in DOMAIN minute_prices \cup marks |->
           IF m \in marks THEN price ELSE minute_prices[m]]

\* StampRates leaving an end of "00:00" at minute 0
RECURSIVE StampRatesNoMidnight(_, _, _)
StampRatesNoMidnight(rates, i, minute_prices) ==
    LET Stamp(start, end) ==
            IF start.raised \/ end.raised
            THEN [raised |-> TRUE, value |-> <<>>]
            ELSE StampRatesNoMidnight(rates, i + 1,
                     StampLoop(minute_prices, start.value, end.value,
                               <<RoundDollars(rates[i].buy),
                                 RoundDollars(rates[i].sell)>>))
    IN IF i > Len(rates) THEN [raised |-> FALSE, value |-> minute_prices]
       ELSE Stamp(_parse_time_to_minutes(rates[i].start),
                  _parse_time_to_minutes(rates[i].end))

\* for rate in rates: parse both times, stamp the rate's marks; the first
\* unparseable time raises out of the loop
RECURSIVE StampRates(_, _, _)
StampRates(rates, i, minute_prices) ==
    LET Stamp(start, end) ==
            IF start.raised \/ end.raised
            THEN [raised |-> TRUE, value |-> <<>>]
            ELSE StampRates(rates, i + 1,
                     StampLoop(minute_prices, start.value,
                               IF end.value = 0 THEN EndOfDay ELSE end.value,
                               <<RoundDollars(rates[i].buy),
                                 RoundDollars(rates[i].sell)>>))
    IN IF i > Len(rates) THEN [raised |-> FALSE, value |-> minute_prices]
       ELSE Stamp(_parse_time_to_minutes(rates[i].start),
                  _parse_time_to_minutes(rates[i].end))

\* f"{n:02d}" for 0 <= n <= 99
Fmt02(n) == Digit[(n \div 10) + 1] \o Digit[(n % 10) + 1]

\* PeriodKey leaving the minutes out of the key
PeriodKeyHourOnly(slot) ==
    LET minutes == slot * SlotMinutes
    IN "PERIOD_" \o Fmt02(minutes \div 60) \o "_" \o Fmt02(0)

\* key = f"PERIOD_{h:02d}_{m:02d}" of slot number slot
PeriodKey(slot) ==
    LET minutes == slot * SlotMinutes
    IN "PERIOD_" \o Fmt02(minutes \div 60) \o "_" \o Fmt02(minutes % 60)

\* for slot in range(48)
SlotRange == 0..(NumSlots - 1)

\* period_keys, the list of the 48 keys in slot order
PeriodKeys == [i \in 1..NumSlots |-> PeriodKey(i - 1)]

\* the last position (from 0) of period_keys holding key: the round of the
\* loop whose assignment to d[key] stays
LastSlotOf(period_keys, key) ==
    LET rounds == {i \in 0..(Len(period_keys) - 1) : period_keys[i + 1] = key}
    IN CHOOSE i \in rounds : \A j \in rounds : j <= i

\* SlotPrice looking the price up at the minute the slot ends
SlotPriceAtEnd(minute_prices, slot) ==
    LET minutes == slot * SlotMinutes + SlotMinutes
    IN IF minutes \in DOMAIN minute_prices
       THEN minute_prices[minutes]
       ELSE <<0, 0>>

\* the price pair of a slot: the stamped pair at the slot's start minute,
\* (0.0, 0.0) when no rate stamped it
SlotPrice(minute_prices, slot) ==
    LET minutes == slot * SlotMinutes
    IN IF minutes \in DOMAIN minute_prices
       THEN minute_prices[minutes]
       ELSE <<0, 0>>

\* buy_prices (side 1) or sell_prices (side 2) after the loop over the slots
PriceTable(period_keys, minute_prices, side) ==
    [key \in {period_keys[i] : i \in 1..Len(period_keys)} |->
        SlotPrice(minute_prices, LastSlotOf(period_keys, key))[side]]

\* the TOU period definition of the i-th key (i counted from 0)
TouPeriod(i, key) ==
    LET slot_min == i * SlotMinutes
        end_slot == slot_min + SlotMinutes
        end_h    == end_slot \div 60
    IN [name          |-> key,
        fromDayOfWeek |-> 0,
        toDayOfWeek   |-> 6,
        fromHour      |-> slot_min \div 60,
        fromMinute    |-> slot_min % 60,
        toHour        |-> IF end_h < 24 THEN end_h ELSE 0,
        toMinute      |-> end_slot % 60]

\* tou_periods after "for i, key in enumerate(period_keys)"
TouPeriods(period_keys) ==
    [key \in {period_keys[i] : i \in 1..Len(period_keys)} |->
        TouPeriod(LastSlotOf(period_keys, key), key)]

\* "demand_charges": a dict {} is the empty function <<>>
DemandCharges ==
    [ALL |-> [rates |-> [ALL |-> 0]], Summer |-> <<>>, Winter |-> <<>>]

\* "energy_charges" around a price table
EnergyCharges(prices) ==
    [ALL |-> [rates |-> [ALL |-> 0]], Summer |-> [rates |-> prices],
     Winter |-> <<>>]

\* "seasons" around the period definitions
Seasons(tou_periods) ==
    [Summer |-> [fromMonth |-> 1, toMonth |-> 12, fromDay |-> 1, toDay |-> 31,
                 tou_periods |-> tou_periods],
     Winter |-> [fromDay |-> 0, toDay |-> 0, fromMonth |-> 0, toMonth |-> 0,
                 tou_periods |-> <<>>]]

\* the assembled tariff_content_v2 document
Tariff(buy_prices, sell_prices, tou_periods, name) ==
    [version        |-> 1,
     code           |-> "TOU_WRITER:CUSTOM",
     name           |-> name,
     utility        |-> "Custom",
     currency       |-> "AUD",
     daily_charges  |-> <<[name |-> "Charge"]>>,
     demand_charges |-> DemandCharges,
     energy_charges |-> EnergyCharges(buy_prices),
     seasons        |-> Seasons(tou_periods),
     sell_tariff    |->
        [name           |-> name \o " (Sell)",
         utility        |-> "Custom",
         daily_charges  |-> <<[name |-> "Charge"]>>,
         demand_charges |-> DemandCharges,
         energy_charges |-> EnergyCharges(sell_prices),
         seasons        |-> Seasons(tou_periods)]]

\* the placeholder held while no document has been built
NoTariff == Tariff(<<>>, <<>>, <<>>, "")

\* plan_name or DEFAULT_PLAN_NAME, for plan_name None or a str
PlanNameOrDefault(plan_name) ==
    IF plan_name[1] = "str" /\ plan_name[2] # "" THEN plan_name[2]
    ELSE DEFAULT_PLAN_NAME

_build_tariff(rates, plan_name) ==
    LET Document(stamped) ==
            IF stamped.raised THEN [raised |-> TRUE, value |-> NoTariff]
            ELSE [raised |-> FALSE,
                  value  |-> Tariff(PriceTable(PeriodKeys, stamped.value, 1),
                                    PriceTable(PeriodKeys, stamped.value, 2),
                                    TouPeriods(PeriodKeys),
                                    PlanNameOrDefault(plan_name))]
    IN Document(StampRates(rates, 1, <<>>))

(***************************************************************************)
(* Decoded JSON values and dict.get                                        *)
(***************************************************************************)
JsonNull == <<"null">>

JsonNum(n) == <<"num", n>>

JsonStr(str) == <<"str", str>>

\* a JSON array, of which only the length matters here
JsonList(length) == <<"list", length>>

JsonObj(f) == <<"obj", f>>

\* the {} default of dict.get
EmptyDict == JsonObj(<<>>)

IsObj(v) == v[1] = "obj"

\* Python truthiness: None, 0, "", [] and {} are falsy
Truthy(v) ==
    CASE v[1] = "null" -> FALSE
      [] v[1] = "num"  -> v[2] # 0
      [] v[1] = "str"  -> v[2] # ""
      [] v[1] = "list" -> v[2] # 0
      [] v[1] = "obj"  -> DOMAIN v[2] # {}

\* v.get(key, default): AttributeError unless v is a dict
PyGet(v, key, default) ==
    IF ~IsObj(v) THEN [raised |-> TRUE, value |-> JsonNull]
    ELSE [raised |-> FALSE,
          value  |-> IF key \in DOMAIN v[2] THEN v[2][key] ELSE default]

\* v.get(k1, {}).get(k2, {}) ... along path
RECURSIVE GetPath(_, _)
GetPath(v, path) ==
    IF path = <<>> THEN [raised |-> FALSE, value |-> v]
    ELSE LET r == PyGet(v, Head(path), EmptyDict)
         IN IF r.raised THEN r ELSE GetPath(r.value, Tail(path))

\* where site_info holds the stored buy-side table
RatesPath == <<"response", "tariff_content_v2", "energy_charges", "Summer", "rates">>

(***************************************************************************)
(* _send_to_teslemetry: one POST                                           *)
(*   resp.received  an HTTP response arrived (no ClientError, no timeout)  *)
(*   resp.status    its status                                             *)
(*   resp.body_ok   reading the body (json() on 200, text() otherwise)     *)
(*                  did not raise                                          *)
(***************************************************************************)
_send_to_teslemetry(resp) ==
    IF ~resp.received THEN [success |-> FALSE, status |-> 0]
    ELSE IF resp.status = 200
         THEN IF resp.body_ok THEN [success |-> TRUE, status |-> 200]
                              ELSE [success |-> FALSE, status |-> 0]
         ELSE IF resp.body_ok THEN [success |-> FALSE, status |-> resp.status]
                              ELSE [success |-> FALSE, status |-> 0]

(***************************************************************************)
(* _send_with_retry: what the loop body does with the result of attempt    *)
(*   "success"   return True, attempt                                      *)
(*   "permanent" return False, attempt                                     *)
(*   "exhausted" break; return False, MAX_RETRIES                          *)
(*   "sleep"     await asyncio.sleep(RETRY_DELAYS[attempt - 1])            *)
(***************************************************************************)
\* RetryDecision retrying a status that is neither permanent nor retriable
RetryDecisionRetryUnknown(attempt, res) ==
    IF res.success THEN "success"
    ELSE IF res.status \in PERMANENT_FAILURE_CODES THEN "permanent"
    ELSE IF attempt = MAX_RETRIES THEN "exhausted"
    ELSE "sleep"

RetryDecision(attempt, res) ==
    IF res.success THEN "success"
    ELSE IF res.status \in PERMANENT_FAILURE_CODES THEN "permanent"
    ELSE IF attempt = MAX_RETRIES THEN "exhausted"
    ELSE IF res.status = 429 THEN "sleep"
    ELSE IF res.status \in RETRIABLE_STATUS_CODES \/ res.status = 0 THEN "sleep"
    ELSE "permanent"

\* RetryDelay taking the delay one place further in RETRY_DELAYS
RetryDelayShifted(attempt) == RETRY_DELAYS[attempt + 1]

\* RetryDelay without the growth of the delay
RetryDelayFlat(attempt) == RETRY_DELAYS[1]

\* delay = RETRY_DELAYS[attempt - 1] (0-based in the source)
RetryDelay(attempt) == RETRY_DELAYS[attempt]

\* RetryReturn reporting MAX_RETRIES for a permanent failure too
RetryReturnAlwaysMax(attempt, decision) ==
    CASE decision = "success"   -> [success |-> TRUE,  attempts |-> attempt]
      [] decision = "permanent" -> [success |-> FALSE, attempts |-> MAX_RETRIES]
      [] decision = "exhausted" -> [success |-> FALSE, attempts |-> MAX_RETRIES]

\* the (success, attempt_count) a returning decision yields
RetryReturn(attempt, decision) ==
    CASE decision = "success"   -> [success |-> TRUE,  attempts |-> attempt]
      [] decision = "permanent" -> [success |-> FALSE, attempts |-> attempt]
      [] decision = "exhausted" -> [success |-> FALSE, attempts |-> MAX_RETRIES]

(***************************************************************************)
(* _verify_tariff: one GET and the comparison                              *)
(*   rb.received, rb.status  as for the POST                               *)
(*   rb.json_ok              response.json() did not raise                 *)
(*   rb.data                 the decoded body                              *)
(***************************************************************************)
\* abs(x)
Abs(x) == IF x < 0 THEN 0 - x ELSE x

\* a price in currency units as the double that holds it
FloatOfPrice(n) == FloatOfDecimal(n, 1000, 1000)

\* abs(stored_value - sent_value) > 0.001 on the doubles.  They differ from
\* the decimals by less than 10^-15, so that the decimal difference decides
\* unless it is 0.001 itself; then the subtraction and the comparison are
\* made on the doubles.
ExceedsTolerance(stored_value, sent_value) ==
    IF Abs(stored_value - sent_value) # Tolerance
    THEN Abs(stored_value - sent_value) > Tolerance
    ELSE FloatAbsGreater(FloatSub(FloatOfPrice(stored_value),
                                  FloatOfPrice(sent_value)),
                         FloatOfPrice(Tolerance))

\* ComparePeriod passing over a period that the stored table lacks
ComparePeriodSkipMissing(stored, period_key, sent_value) ==
    LET got == PyGet(stored, period_key, JsonNull)
    IN IF got.raised THEN "raise"
       ELSE IF got.value[1] = "null" THEN "ok"
       ELSE IF got.value[1] # "num" THEN "raise"
       ELSE IF ExceedsTolerance(got.value[2], sent_value) THEN "miss"
       ELSE "ok"

\* one round of "for period_key, sent_value in sent.items()":
\*   "raise" stored.get or the subtraction raises,
\*   "miss"  a mismatch is recorded,  "ok" otherwise
ComparePeriod(stored, period_key, sent_value) ==
    LET got == PyGet(stored, period_key, JsonNull)
    IN IF got.raised THEN "raise"
       ELSE IF got.value[1] = "null" THEN "miss"
       ELSE IF got.value[1] # "num" THEN "raise"
       ELSE IF ExceedsTolerance(got.value[2], sent_value) THEN "miss"
       ELSE "ok"

\* _verify_tariff comparing the sell-side table as well as the buy-side one
VerifyTariffBothSides(rb, sent_tariff) ==
    IF ~rb.received \/ rb.status # 200 \/ ~rb.json_ok
    THEN [raised |-> FALSE, value |-> FALSE]
    ELSE LET got  == GetPath(rb.data, RatesPath)
             sent == sent_tariff.energy_charges.Summer.rates
             got_sell  == GetPath(rb.data,
                            <<"response", "tariff_content_v2", "sell_tariff",
                              "energy_charges", "Summer", "rates">>)
             sent_sell == sent_tariff.sell_tariff.energy_charges.Summer.rates
         IN IF got.raised \/ got_sell.raised
            THEN [raised |-> TRUE, value |-> FALSE]
            ELSE IF ~Truthy(got.value) THEN [raised |-> FALSE, value |-> FALSE]
            ELSE LET cmp == [k \in DOMAIN sent |->
                                ComparePeriod(got.value, k, sent[k])]
                     cmp_sell == [k \in DOMAIN sent_sell |->
                                    ComparePeriod(got_sell.value, k, sent_sell[k])]
                 IN IF \/ \E k \in DOMAIN sent : cmp[k] = "raise"
                       \/ \E k \in DOMAIN sent_sell : cmp_sell[k] = "raise"
                    THEN [raised |-> TRUE, value |-> FALSE]
                    ELSE [raised |-> FALSE,
                          value  |-> /\ ~\E k \in DOMAIN sent : cmp[k] = "miss"
                                     /\ ~\E k \in DOMAIN sent_sell :
                                            cmp_sell[k] = "miss"]

_verify_tariff(rb, sent_tariff) ==
    IF ~rb.received \/ rb.status # 200 \/ ~rb.json_ok
    THEN [raised |-> FALSE, value |-> FALSE]
    ELSE LET got  == GetPath(rb.data, RatesPath)
             sent == sent_tariff.energy_charges.Summer.rates
         IN IF got.raised THEN [raised |-> TRUE, value |-> FALSE]
            ELSE IF ~Truthy(got.value) THEN [raised |-> FALSE, value |-> FALSE]
            ELSE LET cmp == [k \in DOMAIN sent |->
                                ComparePeriod(got.value, k, sent[k])]
                 IN IF \E k \in DOMAIN sent : cmp[k] = "raise"
                    THEN [raised |-> TRUE, value |-> FALSE]
                    ELSE [raised |-> FALSE,
                          value  |-> ~\E k \in DOMAIN sent : cmp[k] = "miss"]

(***************************************************************************)
(* Inputs                                                                  *)
(***************************************************************************)
\* the most push_tou calls one behaviour makes; they may overlap
MaxPushes == 2

\* the longest rate list given to _build_tariff on its own
MaxRates == 2

\* time strings, character by character
T0000 == <<"0", "0", ":", "0", "0">>

T0600 == <<"0", "6", ":", "0", "0">>

T0700 == <<"0", "7", ":", "0", "0">>

T0715 == <<"0", "7", ":", "1", "5">>

T0800 == <<"0", "8", ":", "0", "0">>

T0900 == <<"0", "9", ":", "0", "0">>

T1000 == <<"1", "0", ":", "0", "0">>

T1700 == <<"1", "7", ":", "0", "0">>

T2200 == <<"2", "2", ":", "0", "0">>

T2500 == <<"2", "5", ":", "0", "0">>

T2600 == <<"2", "6", ":", "0", "0">>

T0775 == <<"0", "7", ":", "7", "5">>

TPadded == <<" ", "0", "7", ":", "0", "0", " ">>

TNoColon == <<"0", "7", "0", "0">>

TSeconds == <<"0", "7", ":", "0", "0", ":", "0", "0">>

TLetters == <<"a", "b", ":", "c", "d">>

TEmpty == <<>>

TTabbed == <<"\t", "0", "7", ":", "0", "0", "\r", "\n">>

TInnerTab == <<"0", "7", ":", "\t", "3", "0">>

TUnderscore == <<"1", "_", "0", ":", "0", "0">>

TTwoUnderscores == <<"1", "_", "_", "0", ":", "0", "0">>

\* vertical tab, 07, no-break space, colon, U+0085, 00
TOtherSpaces == <<"", "0", "7", " ", ":", "", "0", "0">>

\* U+001F, 09:00 in Extended Arabic-Indic digits, U+001C
TSeparatorsAround == <<"", "۰", "۹", ":", "۰", "۰", "">>

\* 07, U+001C, colon, 00
TSeparatorInside == <<"0", "7", "", ":", "0", "0">>

\* 07:00 with the hour written in MaxStrDigits digits, zeros first
TMaxDigits == [i \in 1..(MaxStrDigits - 1) |-> "0"] \o <<"7", ":", "0", "0">>

\* 07:00 with the hour written in one digit more
TTooManyDigits == [i \in 1..MaxStrDigits |-> "0"] \o <<"7", ":", "0", "0">>

Rate(start, end, buy, sell) ==
    [start |-> start, end |-> end, buy |-> buy, sell |-> sell]

\* 30.0 c/kWh and so on, in 10^-5 cent
MorningRate == Rate(T0700, T0900, 3000000, 500000)

DayRate == Rate(T0900, T1700, 2000000, 500000)

FullDayRate == Rate(T0000, T0000, 2500000, 800000)

\* the rates _build_tariff is applied to
BuildRates ==
    { MorningRate, DayRate, FullDayRate,
      Rate(T0715, T0900, 3100000, 600000),
      Rate(T2200, T0600, 3200000, 700000),
      Rate(T0700, T0700, 3300000, 900000),
      Rate(T1700, T0000, 3400000, 1000000),
      Rate(T0800, T1000, 4000000, 1100000),
      Rate(TPadded, T0900, 1234567, 1234564),
      Rate(T2500, T2600, 3500000, 1200000),
      Rate(T0775, T0900, 3600000, 1300000),
      Rate(TNoColon, T0900, 3000000, 500000),
      Rate(T0700, TLetters, 3000000, 500000),
      Rate(TSeconds, T0900, 3000000, 500000),
      Rate(T0700, TEmpty, 3000000, 500000),
      Rate(TTabbed, T0900, 3000005, 15),
      Rate(TInnerTab, T0900, 2999995, 0 - 15),
      Rate(TUnderscore, T1700, 3700000, 0 - 500000),
      Rate(TTwoUnderscores, T1700, 3000000, 500000),
      Rate(TOtherSpaces, T0900, 3000000, 500000),
      Rate(T0700, TSeparatorsAround, 3000000, 500000),
      Rate(TSeparatorInside, T0900, 3000000, 500000),
      Rate(TMaxDigits, T0900, 3000000, 500000),
      Rate(TTooManyDigits, T0900, 3000000, 500000) }

\* rate lists of 0..MaxRates rates
RECURSIVE RateLists(_)
RateLists(n) ==
    IF n = 0 THEN {<<>>}
    ELSE LET shorter == RateLists(n - 1)
         IN shorter \cup {Append(l, r) : l \in {x \in shorter : Len(x) = n - 1},
                                          r \in BuildRates}

BuildInputs == RateLists(MaxRates)

\* plan_name: None, the empty str, a name
PlanNames == {JsonNull, JsonStr(""), JsonStr("Peak Plan")}

\* the data a push_tou call carries (SERVICE_SCHEMA: at least one rate, an
\* optional plan_name)
PushInputs ==
    { [rates |-> <<MorningRate, DayRate>>, plan_name |-> JsonNull],
      [rates |-> <<FullDayRate>>, plan_name |-> JsonStr("Peak Plan")],
      [rates |-> <<MorningRate, Rate(TNoColon, T0900, 3000000, 500000)>>,
       plan_name |-> JsonNull],
      [rates |-> <<Rate(TTooManyDigits, T0900, 3000000, 500000)>>,
       plan_name |-> JsonNull] }

\* the HTTP statuses the remote API answers a POST with
PostStatuses == {200, 400, 401, 403, 404, 429, 500, 502, 503, 504}

NoResponse == [received |-> FALSE, status |-> 0, body_ok |-> FALSE]

\* the statuses tried with a body that cannot be read: the success status,
\* a permanent one and a retriable one
UnreadableStatuses == {200, 401, 500}

\* the answers to a POST that _send_with_retry is given on its own
PostResponses ==
    {NoResponse}
    \cup {[received |-> TRUE, status |-> st, body_ok |-> TRUE] : st \in PostStatuses}
    \cup {[received |-> TRUE, status |-> st, body_ok |-> FALSE] :
            st \in UnreadableStatuses}

\* the answers to a POST tried inside a push: no answer, success, an answer
\* whose body cannot be read, a permanent and a retriable failure
PushPostResponses ==
    {NoResponse,
     [received |-> TRUE, status |-> 200, body_ok |-> TRUE],
     [received |-> TRUE, status |-> 200, body_ok |-> FALSE],
     [received |-> TRUE, status |-> 401, body_ok |-> TRUE],
     [received |-> TRUE, status |-> 500, body_ok |-> TRUE]}

\* the object chain of path around the value v
RECURSIVE Wrap(_, _)
Wrap(path, v) ==
    IF path = <<>> THEN v
    ELSE JsonObj([k \in {Head(path)} |-> Wrap(Tail(path), v)])

\* a stored table of numbers as a JSON object
JsonTable(table) == JsonObj([k \in DOMAIN table |-> JsonNum(table[k])])

\* the slots whose stored entry the readbacks vary
ProbeKeys == {PeriodKey(0), PeriodKey(14), PeriodKey(NumSlots - 1)}

\* differences between a stored and a sent price, in 10^-6: just below, at
\* and just above the tolerance
Deltas == {999, 0 - 999, 1000, 0 - 1000, 1001, 0 - 1001}

ExtraKey == "PERIOD_EXTRA"

\* stored buy-side tables derived from the sent one, all of numbers
StoredTables(sent) ==
    {sent, <<>>, [k \in {ExtraKey} |-> 0], DictSet(sent, ExtraKey, 770000)}
    \cup {[k \in DOMAIN sent \ {p} |-> sent[k]] : p \in ProbeKeys \cap DOMAIN sent}
    \cup {DictSet(sent, p, sent[p] + dl) : p \in ProbeKeys \cap DOMAIN sent,
                                            dl \in Deltas}

\* values that are not an object
NonObjects ==
    {JsonNull, JsonStr("x"), JsonStr(""), JsonNum(0), JsonNum(5),
     JsonList(0), JsonList(2)}

\* decoded bodies: well formed with a stored table, a stored value that is
\* not a number, and a member on the way to the table that is missing or is
\* not an object
WellFormedBodies(sent) ==
    {Wrap(RatesPath, JsonTable(t)) : t \in StoredTables(sent)}

BadValueBodies(sent) ==
    {Wrap(RatesPath, JsonObj(DictSet(JsonTable(sent)[2], p, v))) :
        p \in ProbeKeys \cap DOMAIN sent, v \in {JsonNull, JsonStr("0.3"), JsonList(1)}}

MalformedBodies ==
    {Wrap(SubSeq(RatesPath, 1, lvl), v) : lvl \in 0..Len(RatesPath), v \in NonObjects}
    \cup {Wrap(SubSeq(RatesPath, 1, lvl), EmptyDict) : lvl \in 0..(Len(RatesPath) - 1)}

Bodies(sent) == WellFormedBodies(sent) \cup BadValueBodies(sent) \cup MalformedBodies

NoReadback ==
    [received |-> FALSE, status |-> 0, json_ok |-> FALSE, data |-> JsonNull]

\* the answers to GET site_info
Readbacks(sent) ==
    {NoReadback}
    \cup {[received |-> TRUE, status |-> st, json_ok |-> TRUE, data |-> EmptyDict] :
            st \in {401, 500}}
    \cup {[received |-> TRUE, status |-> 200, json_ok |-> FALSE, data |-> JsonNull]}
    \cup {[received |-> TRUE, status |-> 200, json_ok |-> TRUE, data |-> b] :
            b \in Bodies(sent)}

\* the answers to GET site_info tried inside a push: no answer, a body that
\* is not JSON, the table as sent, a table that differs, a body that makes
\* the extraction raise
PushReadbacks(sent) ==
    {NoReadback,
     [received |-> TRUE, status |-> 200, json_ok |-> FALSE, data |-> JsonNull],
     [received |-> TRUE, status |-> 200, json_ok |-> TRUE,
      data |-> Wrap(RatesPath, JsonTable(sent))],
     [received |-> TRUE, status |-> 200, json_ok |-> TRUE,
      data |-> Wrap(RatesPath, JsonTable([k \in DOMAIN sent |-> sent[k] + 5000]))],
     [received |-> TRUE, status |-> 200, json_ok |-> TRUE,
      data |-> Wrap(<<"response">>, JsonNull)]}

\* a stored document with both price tables and a name, as site_info holds it
StoredDocument(buy, sell) ==
    JsonObj([energy_charges |-> JsonObj([Summer |-> JsonObj([rates |-> JsonTable(buy)])]),
             sell_tariff    |->
                 JsonObj([energy_charges |->
                     JsonObj([Summer |-> JsonObj([rates |-> JsonTable(sell)])])]),
             name           |-> JsonStr("Custom TOU (TOU Writer)")])

\* the table with every price raised by d
Shifted(table, d) == [k \in DOMAIN table |-> table[k] + d]

\* bodies holding a whole stored document: the buy-side table as sent or off
\* by 0.005, the sell-side table as sent or off by 0.02
FullDocBodies(sent_tariff) ==
    LET buy  == sent_tariff.energy_charges.Summer.rates
        sell == sent_tariff.sell_tariff.energy_charges.Summer.rates
    IN {Wrap(<<"response", "tariff_content_v2">>, StoredDocument(b, sl)) :
           b \in {buy, Shifted(buy, 5000)}, sl \in {sell, Shifted(sell, 20000)}}

FullReadbacks(sent_tariff) ==
    {[received |-> TRUE, status |-> 200, json_ok |-> TRUE, data |-> b] :
        b \in FullDocBodies(sent_tariff)}

\* the documents _verify_tariff is applied to on its own
VerifyTariffs ==
    {_build_tariff(rs, JsonNull).value :
        rs \in {<<MorningRate, DayRate>>, <<FullDayRate>>}}

(***************************************************************************)
(* State.  An invocation is a call of async_handle_push_tou, or of the     *)
(* function a specification applies on its own; invocations are numbered   *)
(* in the order they begin, and every variable but notification is a       *)
(* sequence with one entry per invocation.                                 *)
(*   pc            where the invocation stands: at one of the awaits of    *)
(*                 the source, or ended                                    *)
(*                   "post_wait"  async with session.post(...)             *)
(*                   "post_body"  await response.json() / .text()          *)
(*                   "backoff"    await asyncio.sleep(delay)               *)
(*                   "settle"     await asyncio.sleep(2)                   *)
(*                   "get_wait"   async with session.get(...)              *)
(*                   "get_body"   await response.json()                    *)
(*                   "done"       the handler returned                     *)
(*                   "raised"     an exception left the handler            *)
(*   entry         the function that was called                            *)
(*   rates         the rates of the call                                   *)
(*   plan_name     the plan_name of the call                               *)
(*   tariff        the built document (NoTariff before / without one)      *)
(*   attempt       the loop variable of _send_with_retry                   *)
(*   responses     the answers to the POSTs                                *)
(*   results       what _send_to_teslemetry returned for each of them      *)
(*   send_result   what _send_with_retry returned                          *)
(*   readback      the answer to the GET                                   *)
(*   verified      "none", "true", "false", or "raised" when               *)
(*                 _verify_tariff let an exception escape                  *)
(*   trace         the POSTs, sleeps, GETs and fired events, in order      *)
(*   events        the tou_writer_push_result events fired                 *)
(*   notification  the persistent notification tou_writer_push_failure     *)
(*                 is shown (one for all invocations)                      *)
(*   overlapped    history: some invocation began while another had not    *)
(*                 ended (read by no action)                               *)
(***************************************************************************)
VARIABLES pc, entry, rates, plan_name, tariff, attempt, responses, results,
          send_result, readback, verified, trace, events, notification,
          overlapped

vars == <<pc, entry, rates, plan_name, tariff, attempt, responses, results,
          send_result, readback, verified, trace, events, notification,
          overlapped>>

NoResult == [success |-> FALSE, attempts |-> 0]

Op(op, secs) == [op |-> op, secs |-> secs]

\* _fire_event: the plan name, the success flag, the attempt count, whether
\* an error text is attached (site_id is the same in every event)
Event(name, success, attempt_count, error) ==
    [plan_name |-> PlanNameOrDefault(name), success |-> success,
     attempt_count |-> attempt_count, error |-> error]

\* the invocations begun so far
Calls == 1..Len(pc)

\* the handler has been left, by a return or by an exception
Ended(state) == state \in {"done", "raised"}

\* the invocations that have not ended
InFlight == {c \in Calls : ~Ended(pc[c])}

\* the value v for invocation c
Put(f, c, v) == [f EXCEPT ![c] = v]

\* no invocation yet
Init ==
    /\ pc = <<>>
    /\ entry = <<>>
    /\ rates = <<>>
    /\ plan_name = <<>>
    /\ tariff = <<>>
    /\ attempt = <<>>
    /\ responses = <<>>
    /\ results = <<>>
    /\ send_result = <<>>
    /\ readback = <<>>
    /\ verified = <<>>
    /\ trace = <<>>
    /\ events = <<>>
    /\ notification = FALSE
    /\ overlapped = FALSE

\* one invocation of function fn, about to run
InitCall(fn, start, call_rates, name, sent_tariff) ==
    /\ pc = <<start>>
    /\ entry = <<fn>>
    /\ rates = <<call_rates>>
    /\ plan_name = <<name>>
    /\ tariff = <<sent_tariff>>
    /\ attempt = <<0>>
    /\ responses = <<<<>>>>
    /\ results = <<<<>>>>
    /\ send_result = <<NoResult>>
    /\ readback = <<NoReadback>>
    /\ verified = <<"none">>
    /\ trace = <<<<>>>>
    /\ events = <<<<>>>>
    /\ notification = FALSE
    /\ overlapped = FALSE

(***************************************************************************)
(* async_handle_push_tou.  An action is what one invocation does between   *)
(* two awaits; between them no other invocation runs.                      *)
(***************************************************************************)
\* PushTou without the try/except around _build_tariff: the exception leaves
\* the handler and no event is fired
PushTouNoCatch(call_rates, name) ==
    /\ Len(pc) < MaxPushes
    /\ entry' = Append(entry, "async_handle_push_tou")
    /\ rates' = Append(rates, call_rates)
    /\ plan_name' = Append(plan_name, name)
    /\ responses' = Append(responses, <<>>)
    /\ results' = Append(results, <<>>)
    /\ send_result' = Append(send_result, NoResult)
    /\ readback' = Append(readback, NoReadback)
    /\ verified' = Append(verified, "none")
    /\ LET built == _build_tariff(call_rates, name)
       IN IF built.raised
          THEN /\ tariff' = Append(tariff, NoTariff)
               /\ attempt' = Append(attempt, 0)
               /\ events' = Append(events, <<>>)
               /\ trace' = Append(trace, <<>>)
               /\ pc' = Append(pc, "raised")
          ELSE /\ tariff' = Append(tariff, built.value)
               /\ attempt' = Append(attempt, 1)
               /\ events' = Append(events, <<>>)
               /\ trace' = Append(trace, <<Op("POST", 0)>>)
               /\ pc' = Append(pc, "post_wait")
    /\ overlapped' = (overlapped \/ InFlight # {})
    /\ UNCHANGED notification

\* a push_tou call arrives, whatever the earlier ones are doing: build the
\* tariff; when that raises, fire the failure event with attempt_count 0 and
\* return; otherwise enter _send_with_retry and send the first POST
PushTou(call_rates, name) ==
    /\ Len(pc) < MaxPushes
    /\ entry' = Append(entry, "async_handle_push_tou")
    /\ rates' = Append(rates, call_rates)
    /\ plan_name' = Append(plan_name, name)
    /\ responses' = Append(responses, <<>>)
    /\ results' = Append(results, <<>>)
    /\ send_result' = Append(send_result, NoResult)
    /\ readback' = Append(readback, NoReadback)
    /\ verified' = Append(verified, "none")
    /\ LET built == _build_tariff(call_rates, name)
       IN IF built.raised
          THEN /\ tariff' = Append(tariff, NoTariff)
               /\ attempt' = Append(attempt, 0)
               /\ events' = Append(events, <<Event(name, FALSE, 0, TRUE)>>)
               /\ trace' = Append(trace, <<Op("event", 0)>>)
               /\ pc' = Append(pc, "done")
          ELSE /\ tariff' = Append(tariff, built.value)
               /\ attempt' = Append(attempt, 1)
               /\ events' = Append(events, <<>>)
               /\ trace' = Append(trace, <<Op("POST", 0)>>)
               /\ pc' = Append(pc, "post_wait")
    /\ overlapped' = (overlapped \/ InFlight # {})
    /\ UNCHANGED notification

\* _send_with_retry is called on its own: the first POST is sent
SendCall(c) ==
    /\ pc[c] = "send_call"
    /\ attempt' = Put(attempt, c, 1)
    /\ trace' = Put(trace, c, Append(trace[c], Op("POST", 0)))
    /\ pc' = Put(pc, c, "post_wait")
    /\ UNCHANGED overlapped
    /\ UNCHANGED <<entry, rates, plan_name, tariff, responses, results,
                   send_result, readback, verified, events, notification>>

\* the rest of a round of the loop of _send_with_retry, once
\* _send_to_teslemetry returned res, up to the next await: the backoff sleep
\* begins, or _send_with_retry returns and, in the handler, either the settle
\* sleep begins or the failure branch runs (notification, event)
AfterAttempt(c, res) ==
    LET decision == RetryDecision(attempt[c], res)
    IN /\ results' = Put(results, c, Append(results[c], res))
       /\ IF decision = "sleep"
          THEN /\ pc' = Put(pc, c, "backoff")
               /\ trace' = Put(trace, c,
                      Append(trace[c], Op("sleep", RetryDelay(attempt[c]))))
               /\ UNCHANGED <<send_result, events, notification>>
          ELSE LET ret == RetryReturn(attempt[c], decision)
               IN /\ send_result' = Put(send_result, c, ret)
                  /\ IF entry[c] = "_send_with_retry"
                     THEN /\ pc' = Put(pc, c, "send_returned")
                          /\ UNCHANGED <<trace, events, notification>>
                     ELSE IF ret.success
                     THEN /\ pc' = Put(pc, c, "settle")
                          /\ trace' = Put(trace, c,
                                 Append(trace[c], Op("sleep", SettleDelay)))
                          /\ UNCHANGED <<events, notification>>
                     ELSE /\ pc' = Put(pc, c, "done")
                          /\ notification' = TRUE
                          /\ events' = Put(events, c,
                                 Append(events[c],
                                        Event(plan_name[c], FALSE, ret.attempts, TRUE)))
                          /\ trace' = Put(trace, c, Append(trace[c], Op("event", 0)))

\* the POST is answered, or fails without an answer.  With an answer the
\* invocation goes on to read the body; without one _send_to_teslemetry
\* returns (False, 0) at once
PostAnswered(c, resp) ==
    /\ pc[c] = "post_wait"
    /\ responses' = Put(responses, c, Append(responses[c], resp))
    /\ IF resp.received
       THEN /\ pc' = Put(pc, c, "post_body")
            /\ UNCHANGED <<results, send_result, trace, events, notification>>
       ELSE AfterAttempt(c, _send_to_teslemetry(resp))
    /\ UNCHANGED overlapped
    /\ UNCHANGED <<entry, rates, plan_name, tariff, attempt, readback, verified>>

\* the body of the answer has been read, or reading it raised
PostBodyRead(c) ==
    /\ pc[c] = "post_body"
    /\ AfterAttempt(c, _send_to_teslemetry(responses[c][Len(responses[c])]))
    /\ UNCHANGED overlapped
    /\ UNCHANGED <<entry, rates, plan_name, tariff, attempt, responses,
                   readback, verified>>

\* the sleep between two attempts is over: the next round sends its POST
Backoff(c) ==
    /\ pc[c] = "backoff"
    /\ attempt' = Put(attempt, c, attempt[c] + 1)
    /\ trace' = Put(trace, c, Append(trace[c], Op("POST", 0)))
    /\ pc' = Put(pc, c, "post_wait")
    /\ UNCHANGED overlapped
    /\ UNCHANGED <<entry, rates, plan_name, tariff, responses, results,
                   send_result, readback, verified, events, notification>>

\* the sleep after a successful delivery is over: _verify_tariff sends the GET
Settle(c) ==
    /\ pc[c] = "settle"
    /\ trace' = Put(trace, c, Append(trace[c], Op("GET", 0)))
    /\ pc' = Put(pc, c, "get_wait")
    /\ UNCHANGED overlapped
    /\ UNCHANGED <<entry, rates, plan_name, tariff, attempt, responses, results,
                   send_result, readback, verified, events, notification>>

\* _verify_tariff is called on its own: the GET is sent
VerifyCall(c) ==
    /\ pc[c] = "verify_call"
    /\ trace' = Put(trace, c, Append(trace[c], Op("GET", 0)))
    /\ pc' = Put(pc, c, "get_wait")
    /\ UNCHANGED overlapped
    /\ UNCHANGED <<entry, rates, plan_name, tariff, attempt, responses, results,
                   send_result, readback, verified, events, notification>>

\* AfterVerify letting a failed verification turn the outcome into a failure
AfterVerifyDecidesSuccess(c, v) ==
    /\ verified' = Put(verified, c, IF v.raised THEN "raised"
                                    ELSE IF v.value THEN "true" ELSE "false")
    /\ IF entry[c] = "_verify_tariff"
       THEN /\ pc' = Put(pc, c, IF v.raised THEN "verify_raised"
                                             ELSE "verify_returned")
            /\ UNCHANGED <<trace, events, notification>>
       ELSE IF v.raised
       THEN /\ pc' = Put(pc, c, "raised")
            /\ UNCHANGED <<trace, events, notification>>
       ELSE /\ pc' = Put(pc, c, "done")
            /\ notification' = ~v.value
            /\ events' = Put(events, c,
                   Append(events[c],
                          Event(plan_name[c], v.value, send_result[c].attempts,
                                ~v.value)))
            /\ trace' = Put(trace, c, Append(trace[c], Op("event", 0)))

\* what follows the outcome v of _verify_tariff, up to the end of the
\* handler: dismiss the notification, fire the success event; an exception
\* of _verify_tariff leaves the handler before either
AfterVerify(c, v) ==
    /\ verified' = Put(verified, c, IF v.raised THEN "raised"
                                    ELSE IF v.value THEN "true" ELSE "false")
    /\ IF entry[c] = "_verify_tariff"
       THEN /\ pc' = Put(pc, c, IF v.raised THEN "verify_raised"
                                             ELSE "verify_returned")
            /\ UNCHANGED <<trace, events, notification>>
       ELSE IF v.raised
       THEN /\ pc' = Put(pc, c, "raised")
            /\ UNCHANGED <<trace, events, notification>>
       ELSE /\ pc' = Put(pc, c, "done")
            /\ notification' = FALSE
            /\ events' = Put(events, c,
                   Append(events[c],
                          Event(plan_name[c], TRUE, send_result[c].attempts,
                                FALSE)))
            /\ trace' = Put(trace, c, Append(trace[c], Op("event", 0)))

\* the GET is answered, or fails without an answer.  With a 200 the
\* invocation goes on to read the body; otherwise _verify_tariff returns
\* False at once
GetAnswered(c, rb) ==
    /\ pc[c] = "get_wait"
    /\ readback' = Put(readback, c, rb)
    /\ IF rb.received /\ rb.status = 200
       THEN /\ pc' = Put(pc, c, "get_body")
            /\ UNCHANGED <<verified, trace, events, notification>>
       ELSE AfterVerify(c, _verify_tariff(rb, tariff[c]))
    /\ UNCHANGED overlapped
    /\ UNCHANGED <<entry, rates, plan_name, tariff, attempt, responses, results,
                   send_result>>

\* the body of the readback has been read and decoded, or that raised; the
\* extraction and the comparison follow
GetBodyRead(c) ==
    /\ pc[c] = "get_body"
    /\ AfterVerify(c, _verify_tariff(readback[c], tariff[c]))
    /\ UNCHANGED overlapped
    /\ UNCHANGED <<entry, rates, plan_name, tariff, attempt, responses, results,
                   send_result, readback>>

Next ==
    \/ \E call \in PushInputs : PushTou(call.rates, call.plan_name)
    \/ \E c \in Calls : \E resp \in PushPostResponses : PostAnswered(c, resp)
    \/ \E c \in Calls : PostBodyRead(c)
    \/ \E c \in Calls : Backoff(c)
    \/ \E c \in Calls : Settle(c)
    \/ \E c \in Calls :
          \E rb \in PushReadbacks(tariff[c].energy_charges.Summer.rates) :
              GetAnswered(c, rb)
    \/ \E c \in Calls : GetBodyRead(c)

Spec == Init /\ [][Next]_vars

(***************************************************************************)
(* _send_with_retry applied on its own to every sequence of answers        *)
(***************************************************************************)
InitSend ==
    \E t \in VerifyTariffs :
        InitCall("_send_with_retry", "send_call", <<>>, JsonNull, t)

NextSend ==
    \/ SendCall(1)
    \/ \E resp \in PostResponses : PostAnswered(1, resp)
    \/ PostBodyRead(1)
    \/ Backoff(1)

SpecSend == InitSend /\ [][NextSend]_vars

(***************************************************************************)
(* _build_tariff applied on its own to every rate list of BuildInputs      *)
(***************************************************************************)
InitBuild ==
    \E rs \in BuildInputs : \E name \in PlanNames :
        InitCall("_build_tariff", "build_call", rs, name, NoTariff)

BuildCall(c) ==
    /\ pc[c] = "build_call"
    /\ LET built == _build_tariff(rates[c], plan_name[c])
       IN /\ tariff' = Put(tariff, c, built.value)
          /\ pc' = Put(pc, c, IF built.raised THEN "build_raised"
                                               ELSE "build_returned")
    /\ UNCHANGED overlapped
    /\ UNCHANGED <<entry, rates, plan_name, attempt, responses, results,
                   send_result, readback, verified, trace, events, notification>>

NextBuild == BuildCall(1)

SpecBuild == InitBuild /\ [][NextBuild]_vars

(***************************************************************************)
(* _verify_tariff applied on its own to a sent document and a readback     *)
(***************************************************************************)
InitVerify ==
    \E t \in VerifyTariffs :
        InitCall("_verify_tariff", "verify_call", <<>>, JsonNull, t)

NextVerify ==
    \/ VerifyCall(1)
    \/ \E rb \in Readbacks(tariff[1].energy_charges.Summer.rates)
                    \cup FullReadbacks(tariff[1]) : GetAnswered(1, rb)
    \/ GetBodyRead(1)

SpecVerify == InitVerify /\ [][NextVerify]_vars

(***************************************************************************)
(* Properties of _send_with_retry (checked under SpecSend)                 *)
(***************************************************************************)
IsPost(o) == o.op = "POST"

IsSleep(o) == o.op = "sleep"

IsGet(o) == o.op = "GET"

IsEvent(o) == o.op = "event"

\* the POSTs made by invocation c
NumPosts(c) == Len(SelectSeq(trace[c], IsPost))

\* the delays taken by invocation c, in order
Sleeps(c) ==
    [i \in 1..Len(SelectSeq(trace[c], IsSleep)) |->
        SelectSeq(trace[c], IsSleep)[i].secs]

\* _send_with_retry was called in invocation c and has returned
SendReturned(c) ==
    \/ pc[c] \in {"send_returned", "settle", "get_wait", "get_body"}
    \/ pc[c] \in {"done", "raised"} /\ attempt[c] > 0

\* the results the retry policy calls transient
TransientStatuses == {429, 500, 502, 503, 504, 0}

IsTransient(res) == ~res.success /\ res.status \in TransientStatuses

\* POST, 2s, POST, 4s, ..., POST: k attempts with the backoff between them
AttemptsTrace(k) ==
    [i \in 1..(2 * k - 1) |->
        IF i % 2 = 1 THEN Op("POST", 0) ELSE Op("sleep", <<2, 4>>[i \div 2])]

\* C1: one call of _send_with_retry makes at least 1 and at most 3 POSTs, and
\* the attempt count it returns is the number of POSTs it made
C1_AttemptsBounded ==
    \A c \in Calls :
        /\ NumPosts(c) <= 3
        /\ Len(responses[c]) <= NumPosts(c)
        /\ SendReturned(c) => /\ NumPosts(c) >= 1
                              /\ NumPosts(c) = Len(responses[c])
                              /\ send_result[c].attempts = NumPosts(c)

C1_Witness ==
    /\ SendReturned(1)
    /\ ~send_result[1].success
    /\ NumPosts(1) = 2
    /\ results[1][2].status = 401

\* C2: a failure of attempt n with a status that is not transient ends the
\* delivery at once: (False, n) is returned, no POST and no delay follows
C2_PermanentStopsImmediately ==
    \A c \in Calls :
        \A n \in 1..Len(results[c]) :
            (~results[c][n].success /\ ~IsTransient(results[c][n])) =>
                /\ Len(results[c]) = n
                /\ NumPosts(c) = n
                /\ SendReturned(c)
                /\ send_result[c] = [success |-> FALSE, attempts |-> n]
                /\ Len(Sleeps(c)) = n - 1
                /\ trace[c] = AttemptsTrace(n)

C2_Witness ==
    /\ Len(results[1]) = 1
    /\ results[1][1] = [success |-> FALSE, status |-> 404]
    /\ send_result[1] = [success |-> FALSE, attempts |-> 1]
    /\ Sleeps(1) = <<>>

\* C3: when the first k-1 attempts fail with transient results and attempt k
\* succeeds, (True, k) is returned and the delays taken are the first k-1 of
\* 2s, 4s, each between its failing attempt and the next one
C3_SuccessAfterBackoff ==
    \A c \in Calls :
        \A k \in 1..Len(results[c]) :
            (results[c][k].success
                /\ \A i \in 1..(k - 1) : IsTransient(results[c][i])) =>
                /\ Len(results[c]) = k
                /\ SendReturned(c)
                /\ send_result[c] = [success |-> TRUE, attempts |-> k]
                /\ trace[c] = AttemptsTrace(k)
                /\ \A i \in 1..Len(Sleeps(c)) : Sleeps(c)[i] # 8

C3_Witness ==
    /\ Len(results[1]) = 3
    /\ results[1][1].status = 500
    /\ results[1][2].status = 500
    /\ results[1][3].success
    /\ send_result[1] = [success |-> TRUE, attempts |-> 3]
    /\ Sleeps(1) = <<2, 4>>

\* C4: when all three attempts fail with transient results, (False, 3) is
\* returned after the delays 2s and 4s, with no delay after the third attempt
C4_ExhaustedAfterThree ==
    \A c \in Calls :
        (Len(results[c]) = 3 /\ \A i \in 1..3 : IsTransient(results[c][i])) =>
            /\ SendReturned(c)
            /\ send_result[c] = [success |-> FALSE, attempts |-> 3]
            /\ Sleeps(c) = <<2, 4>>
            /\ trace[c] = AttemptsTrace(3)

C4_Witness ==
    /\ Len(results[1]) = 3
    /\ \A i \in 1..3 : results[1][i] = [success |-> FALSE, status |-> 429]
    /\ send_result[1] = [success |-> FALSE, attempts |-> 3]

\* C5: a POST answered with HTTP 200 is a success that ends the delivery
\* (_send_to_teslemetry returns (True, 200), _send_with_retry returns
\* (True, n) and makes no other POST), and _send_to_teslemetry returns status
\* 0 only when no HTTP response was received
C5_Status200IsSuccess ==
    \A c \in Calls :
        \A n \in 1..Len(results[c]) :
            /\ (responses[c][n].received /\ responses[c][n].status = 200) =>
                  /\ results[c][n] = [success |-> TRUE, status |-> 200]
                  /\ Len(responses[c]) = n
                  /\ SendReturned(c)
                  /\ send_result[c] = [success |-> TRUE, attempts |-> n]
            /\ results[c][n].status = 0 => ~responses[c][n].received

(***************************************************************************)
(* Properties of async_handle_push_tou (checked under Spec)                *)
(***************************************************************************)
\* C6: in every push the 2s settle delay and the one readback come only
\* after _send_with_retry returned success, in the order POST, 2s, GET,
\* event; no readback is made after a failed delivery; and once the delivery
\* succeeded the event carries success = True and the attempt count of
\* _send_with_retry, whether _verify_tariff returned True or False
C6_VerifyOnlyAfterSuccessAdvisory ==
    \A c \in Calls :
        /\ Len(SelectSeq(trace[c], IsGet)) <= 1
        /\ pc[c] \in {"settle", "get_wait", "get_body"} => send_result[c].success
        /\ pc[c] = "settle" =>
              trace[c] = Append(AttemptsTrace(NumPosts(c)), Op("sleep", 2))
        /\ \A j \in 1..Len(trace[c]) :
              trace[c][j].op = "GET" =>
                  /\ send_result[c].success
                  /\ j = 2 * send_result[c].attempts + 1
                  /\ trace[c][j - 1] = Op("sleep", 2)
                  /\ trace[c][j - 2] = Op("POST", 0)
        /\ verified[c] # "none" => send_result[c].success
        /\ (SendReturned(c) /\ ~send_result[c].success) =>
              /\ verified[c] = "none"
              /\ SelectSeq(trace[c], IsGet) = <<>>
              /\ Len(Sleeps(c)) = NumPosts(c) - 1
        /\ (SendReturned(c) /\ send_result[c].success
                /\ verified[c] \in {"true", "false"}) =>
              /\ pc[c] = "done"
              /\ Len(events[c]) = 1
              /\ events[c][1].success
              /\ events[c][1].attempt_count = send_result[c].attempts
              /\ events[c][1].attempt_count = NumPosts(c)
              /\ trace[c] = AttemptsTrace(NumPosts(c))
                              \o <<Op("sleep", 2), Op("GET", 0), Op("event", 0)>>

C6_Witness ==
    \E c \in Calls :
        /\ pc[c] = "done"
        /\ send_result[c] = [success |-> TRUE, attempts |-> 2]
        /\ verified[c] = "false"
        /\ events[c] = <<Event(plan_name[c], TRUE, 2, FALSE)>>

\* _build_tariff raises on the rate list: the loop over the rates does (the
\* rest of the function raises nothing)
BuildFails(rs) == StampRates(rs, 1, <<>>).raised

\* C7: when _build_tariff fails, the push ends with the event success = False,
\* attempt_count = 0, and without a POST, a GET or a delay
C7_BuildFailureNoNetwork ==
    \A c \in Calls :
        BuildFails(rates[c]) =>
            /\ pc[c] = "done"
            /\ Len(events[c]) = 1
            /\ ~events[c][1].success
            /\ events[c][1].attempt_count = 0
            /\ responses[c] = <<>>
            /\ \A j \in 1..Len(trace[c]) :
                  trace[c][j].op \notin {"POST", "GET", "sleep"}

\* two pushes ended so: one over a start without a colon, one over a start
\* whose hour has more than MaxStrDigits digits
C7_Witness ==
    \E c \in Calls : \E d \in Calls :
        /\ pc[c] = "done"
        /\ pc[d] = "done"
        /\ \E i \in 1..Len(rates[c]) :
              Len(Split(Strip(rates[c][i].start), ":")) # 2
        /\ Len(rates[d][1].start) > MaxStrDigits
        /\ _parse_time_to_minutes(rates[d][1].start).raised
        /\ events[c] = <<Event(plan_name[c], FALSE, 0, TRUE)>>
        /\ events[d] = <<Event(plan_name[d], FALSE, 0, TRUE)>>
        /\ trace[c] = <<Op("event", 0)>>
        /\ trace[d] = <<Op("event", 0)>>

(***************************************************************************)
(* Properties of _verify_tariff (checked under SpecVerify)                 *)
(***************************************************************************)
\* the sent buy-side table
SentRates == tariff[1].energy_charges.Summer.rates

\* the readback is HTTP 200 with a body in which every member on the way to
\* the stored table is an object and every stored value is a number
WellFormedReadback ==
    /\ readback[1].received
    /\ readback[1].status = 200
    /\ readback[1].json_ok
    /\ readback[1].data \in WellFormedBodies(SentRates) \cup FullDocBodies(tariff[1])

\* the stored buy-side table of a well-formed readback
StoredRates ==
    LET obj == readback[1].data[2]["response"][2]["tariff_content_v2"][2]
                   ["energy_charges"][2]["Summer"][2]["rates"][2]
    IN [k \in DOMAIN obj |-> obj[k][2]]

VerifyCalled == pc[1] \in {"verify_returned", "verify_raised"}

\* C8: on a well-formed readback _verify_tariff returns True exactly when the
\* stored buy-side table is not empty and holds every sent key with a value
\* within 0.001 of the sent one; keys only the stored table has do not matter
C8_VerifyIffAllSentSlotsMatch ==
    (VerifyCalled /\ WellFormedReadback) =>
        /\ verified[1] \in {"true", "false"}
        /\ verified[1] = "true" <=>
              /\ DOMAIN StoredRates # {}
              /\ \A k \in DOMAIN SentRates :
                    /\ k \in DOMAIN StoredRates
                    /\ StoredRates[k] - SentRates[k] <= 1000
                    /\ SentRates[k] - StoredRates[k] <= 1000

\* the readback failed: no response, a status other than 200, a body that is
\* not JSON, or a JSON body that is not well formed
ReadbackFailed == ~WellFormedReadback

\* C9: _verify_tariff never raises: on every readback failure (status other
\* than 200, network fault, malformed body) it returns False
C9_VerifyNeverRaises ==
    (VerifyCalled /\ ReadbackFailed) =>
        /\ pc[1] = "verify_returned"
        /\ verified[1] = "false"
        /\ Len(SelectSeq(trace[1], IsGet)) = 1

(***************************************************************************)
(* Properties of _build_tariff (checked under SpecBuild)                   *)
(***************************************************************************)
TwoDigits ==
    <<"00", "01", "02", "03", "04", "05", "06", "07", "08", "09", "10", "11",
      "12", "13", "14", "15", "16", "17", "18", "19", "20", "21", "22", "23">>

\* PERIOD_hh_mm for the half-hour starts 00:00, 00:30, ..., 23:30
HalfHourKeys ==
    {"PERIOD_" \o TwoDigits[h + 1] \o "_" \o mm : h \in 0..23, mm \in {"00", "30"}}

\* every start and end of the rate list parses
AllTimesParse(rs) ==
    \A i \in 1..Len(rs) : /\ ~_parse_time_to_minutes(rs[i].start).raised
                          /\ ~_parse_time_to_minutes(rs[i].end).raised

\* C10: for a non-empty rate list whose times parse, _build_tariff returns a
\* document whose buy table, sell table and Summer tou_periods each have
\* exactly the 48 keys PERIOD_hh_mm of the half-hour starts of the day
C10_FortyEightSlots ==
    (pc[1] # "build_call" /\ rates[1] # <<>> /\ AllTimesParse(rates[1])) =>
        /\ pc[1] = "build_returned"
        /\ DOMAIN tariff[1].energy_charges.Summer.rates = HalfHourKeys
        /\ DOMAIN tariff[1].sell_tariff.energy_charges.Summer.rates = HalfHourKeys
        /\ DOMAIN tariff[1].seasons.Summer.tou_periods = HalfHourKeys
        /\ DOMAIN tariff[1].sell_tariff.seasons.Summer.tou_periods = HalfHourKeys
        /\ Cardinality(DOMAIN tariff[1].energy_charges.Summer.rates) = 48
        /\ Cardinality(DOMAIN tariff[1].sell_tariff.energy_charges.Summer.rates) = 48
        /\ Cardinality(DOMAIN tariff[1].seasons.Summer.tou_periods) = 48

C10_Witness ==
    /\ pc[1] = "build_returned"
    /\ Len(rates[1]) = 2
    /\ rates[1][1].start = T0715
    /\ Cardinality(DOMAIN tariff[1].energy_charges.Summer.rates) = 48

\* _build_tariff returned a document
BuildReturned == pc[1] = "build_returned"

BuyTable == tariff[1].energy_charges.Summer.rates

SellTable == tariff[1].sell_tariff.energy_charges.Summer.rates

\* the minutes since midnight a time string stands for
MinutesOf(time_str) == _parse_time_to_minutes(time_str).value

\* the key of the slot that starts at minute 30 * slot
SlotKey(slot) ==
    "PERIOD_" \o TwoDigits[(slot \div 2) + 1] \o "_"
              \o (IF slot % 2 = 0 THEN "00" ELSE "30")

\* cents / 100 for a price that is a whole number of 10^-6 currency units
Dollars(p) == p \div 10

\* the time strings of a rate parse, and its prices need no rounding
PlainRate(r) ==
    /\ ~_parse_time_to_minutes(r.start).raised
    /\ ~_parse_time_to_minutes(r.end).raised
    /\ r.buy % 10 = 0
    /\ r.sell % 10 = 0

\* C11: a single rate 00:00-00:00 gives all 48 slots its buy and sell price,
\* none falling back to 0; in general a rate (here the last of the list, so
\* that no later rate overwrites it) from an aligned start S to "00:00" prices
\* every slot from S through 23:30
C11_MidnightEndCoversRestOfDay ==
    (BuildReturned /\ rates[1] # <<>>) =>
        LET r == rates[1][Len(rates[1])]
            S == MinutesOf(r.start)
        IN (PlainRate(r) /\ MinutesOf(r.end) = 0
                /\ S % 30 = 0 /\ S >= 0 /\ S < 1440) =>
              \A slot \in 0..47 :
                  30 * slot >= S =>
                      /\ BuyTable[SlotKey(slot)] = Dollars(r.buy)
                      /\ SellTable[SlotKey(slot)] = Dollars(r.sell)

C11_Witness ==
    /\ BuildReturned
    /\ rates[1] = <<Rate(T0000, T0000, 2500000, 800000)>>
    /\ \A slot \in 0..47 : /\ BuyTable[SlotKey(slot)] = 250000
                           /\ SellTable[SlotKey(slot)] = 80000

\* the end minute of a rate, "00:00" standing for the end of the day
EndMinuteOf(r) == IF MinutesOf(r.end) = 0 THEN 1440 ELSE MinutesOf(r.end)

\* the start minute of the slot lies in [start, end) of the rate
Covers(r, slot) ==
    /\ MinutesOf(r.start) <= 30 * slot
    /\ 30 * slot < EndMinuteOf(r)

\* the positions of the rates of the list that cover the slot
Covering(rs, slot) == {i \in 1..Len(rs) : Covers(rs[i], slot)}

\* the last position of a non-empty set of positions
LastOf(positions) == CHOOSE i \in positions : \A j \in positions : j <= i

AllPlain(rs) == \A i \in 1..Len(rs) : PlainRate(rs[i])

\* C12: a slot that two or more rates of the list cover has the buy and sell
\* price of the last of them in input order, and overlapping rates are not
\* rejected
C12_LastCoveringRateWins ==
    (pc[1] # "build_call" /\ AllPlain(rates[1])) =>
        /\ BuildReturned
        /\ \A slot \in 0..47 :
              Cardinality(Covering(rates[1], slot)) >= 2 =>
                  LET r == rates[1][LastOf(Covering(rates[1], slot))]
                  IN /\ BuyTable[SlotKey(slot)] = Dollars(r.buy)
                     /\ SellTable[SlotKey(slot)] = Dollars(r.sell)

\* start and end of every rate lie on the half-hour grid
GridAligned(rs) ==
    \A i \in 1..Len(rs) : /\ MinutesOf(rs[i].start) % 30 = 0
                          /\ MinutesOf(rs[i].end) % 30 = 0

\* the price is cents / 100, to the 6 decimals kept
IsDollarsOf(price, cents) == price * 10 - cents <= 5 /\ cents - price * 10 <= 5

\* C13: for rates on the half-hour grid, a slot whose start minute lies in
\* [start, end) of a rate has that rate's buy and sell price divided by 100
\* (the last such rate's, when several cover it), a slot that no rate covers
\* has 0.0 in both tables, and a document is returned all the same; for
\* 07:00-09:00 at 30.0 and 09:00-17:00 at 20.0 the buy price is 0.30 at 07:00
\* and 07:30, 0.20 at 09:00 and 0.0 at 00:00
C13_AlignedRatesPriceTheirSlots ==
    (pc[1] # "build_call" /\ rates[1] # <<>> /\ AllTimesParse(rates[1]) /\ GridAligned(rates[1])) =>
        /\ BuildReturned
        /\ \A slot \in 0..47 :
              IF Covering(rates[1], slot) = {}
              THEN /\ BuyTable[SlotKey(slot)] = 0
                   /\ SellTable[SlotKey(slot)] = 0
              ELSE LET r == rates[1][LastOf(Covering(rates[1], slot))]
                   IN /\ IsDollarsOf(BuyTable[SlotKey(slot)], r.buy)
                      /\ IsDollarsOf(SellTable[SlotKey(slot)], r.sell)
        /\ rates[1] = <<Rate(T0700, T0900, 3000000, 500000),
                     Rate(T0900, T1700, 2000000, 500000)>> =>
              /\ BuyTable["PERIOD_07_00"] = 300000
              /\ BuyTable["PERIOD_07_30"] = 300000
              /\ BuyTable["PERIOD_09_00"] = 200000
              /\ BuyTable["PERIOD_00_00"] = 0

C13_Witness ==
    /\ BuildReturned
    /\ rates[1] = <<Rate(T0700, T0900, 3000000, 500000),
                 Rate(T0900, T1700, 2000000, 500000)>>
    /\ BuyTable["PERIOD_07_30"] = 300000
    /\ SellTable["PERIOD_09_00"] = 50000
    /\ BuyTable["PERIOD_00_00"] = 0

\* the string is HH:MM: two ':'-separated numeric fields, the hour in 0..23
\* and the minute in 0..59
ValidHHMM(time_str) ==
    LET parts == Split(Strip(time_str), ":")
    IN /\ Len(parts) = 2
       /\ ~PyInt(parts[1]).raised
       /\ ~PyInt(parts[2]).raised
       /\ PyInt(parts[1]).value \in 0..23
       /\ PyInt(parts[2]).value \in 0..59

\* C14: _build_tariff fails, returning no document, whenever the rate list is
\* empty or a start or end is not a parseable HH:MM time of day
C14_InvalidInputFails ==
    (pc[1] # "build_call"
        /\ \/ rates[1] = <<>>
           \/ \E i \in 1..Len(rates[1]) : \/ ~ValidHHMM(rates[1][i].start)
                                       \/ ~ValidHHMM(rates[1][i].end)) =>
        pc[1] = "build_raised"

\* C17: slot i has the price of the last rate in input order with
\* start <= 30 * i < end, also when the start of the rate is not on a
\* half-hour boundary (a single rate 07:15-09:00 prices 07:30, 08:00, 08:30)
C17_UnalignedStartStampsAlignedMarks ==
    (BuildReturned /\ AllPlain(rates[1])) =>
        /\ \A slot \in 0..47 :
              Covering(rates[1], slot) # {} =>
                  LET r == rates[1][LastOf(Covering(rates[1], slot))]
                  IN /\ BuyTable[SlotKey(slot)] = Dollars(r.buy)
                     /\ SellTable[SlotKey(slot)] = Dollars(r.sell)
        /\ rates[1] = <<Rate(T0715, T0900, 3100000, 600000)>> =>
              /\ BuyTable["PERIOD_07_30"] = 310000
              /\ BuyTable["PERIOD_08_00"] = 310000
              /\ BuyTable["PERIOD_08_30"] = 310000

\* the list without its i-th rate
WithoutRate(rs, i) == SubSeq(rs, 1, i - 1) \o SubSeq(rs, i + 1, Len(rs))

\* the rate does not end at "00:00" and its end is not after its start
EndsBeforeStart(r) ==
    /\ ~_parse_time_to_minutes(r.start).raised
    /\ ~_parse_time_to_minutes(r.end).raised
    /\ MinutesOf(r.end) # 0
    /\ MinutesOf(r.end) <= MinutesOf(r.start)

\* C19: a rate whose end is not "00:00" and is not after its start (22:00-06:00,
\* 07:00-07:00) stamps nothing and raises nothing: the result is that of the
\* list without this rate
C19_NoWrapPastMidnight ==
    pc[1] # "build_call" =>
        \A i \in 1..Len(rates[1]) :
            EndsBeforeStart(rates[1][i]) =>
                LET other == _build_tariff(WithoutRate(rates[1], i), plan_name[1])
                IN /\ other.raised <=> pc[1] = "build_raised"
                   /\ ~other.raised =>
                         /\ BuyTable = other.value.energy_charges.Summer.rates
                         /\ SellTable =
                              other.value.sell_tariff.energy_charges.Summer.rates

C19_Witness ==
    /\ BuildReturned
    /\ rates[1] = <<Rate(T0000, T0000, 2500000, 800000),
                 Rate(T2200, T0600, 3200000, 700000)>>
    /\ BuyTable["PERIOD_22_00"] = 250000
    /\ BuyTable["PERIOD_05_30"] = 250000

(***************************************************************************)
(* _verify_tariff and the sell side (checked under SpecVerify)             *)
(***************************************************************************)
\* what a call of _verify_tariff comes to
Outcome(v) == IF v.raised THEN "raised" ELSE IF v.value THEN "true" ELSE "false"

\* sent documents with the buy-side table of t and another sell-side table
\* and other period definitions
SentVariants(t) ==
    {t,
     Tariff(t.energy_charges.Summer.rates,
            Shifted(t.sell_tariff.energy_charges.Summer.rates, 1000000),
            t.seasons.Summer.tou_periods, t.name),
     Tariff(t.energy_charges.Summer.rates, <<>>, <<>>, "Other Plan")}

\* the decoded body holds an object at response.tariff_content_v2
HasStoredDocument(data) ==
    /\ IsObj(data)
    /\ "response" \in DOMAIN data[2]
    /\ IsObj(data[2]["response"])
    /\ "tariff_content_v2" \in DOMAIN data[2]["response"][2]
    /\ IsObj(data[2]["response"][2]["tariff_content_v2"])

\* the body with the member of the stored document set to v
WithStoredMember(data, member, v) ==
    LET response == data[2]["response"][2]
        document == response["tariff_content_v2"][2]
    IN JsonObj(DictSet(data[2], "response",
           JsonObj(DictSet(response, "tariff_content_v2",
               JsonObj(DictSet(document, member, v))))))

\* readbacks with the stored buy-side table of rb and another sell side or
\* other metadata
ReadbackVariants(rb) ==
    IF rb.received /\ rb.json_ok /\ HasStoredDocument(rb.data)
    THEN {rb}
         \cup {[rb EXCEPT !.data = WithStoredMember(rb.data, "sell_tariff", v)] :
                 v \in {JsonNull, JsonStr("x"), EmptyDict,
                        JsonObj([energy_charges |-> JsonObj([Summer |->
                            JsonObj([rates |-> JsonTable([k \in {ExtraKey} |-> 1])])])])}}
         \cup {[rb EXCEPT !.data = WithStoredMember(rb.data, "name", JsonStr("other"))],
               [rb EXCEPT !.data = WithStoredMember(rb.data, "seasons", EmptyDict)]}
    ELSE {rb}

\* the stored sell-side table of a readback holding a whole stored document
StoredSellRates ==
    LET obj == readback[1].data[2]["response"][2]["tariff_content_v2"][2]
                   ["sell_tariff"][2]["energy_charges"][2]["Summer"][2]["rates"][2]
    IN [k \in DOMAIN obj |-> obj[k][2]]

\* C20: the result of _verify_tariff depends on the sent and the stored
\* buy-side table only: changing the sell-side tables, the period definitions
\* or the metadata of the sent or of the stored document leaves it the same,
\* and a stored sell-side table that differs from the sent one does not make
\* it False
C20_VerifyIgnoresSellSide ==
    VerifyCalled =>
        /\ \A t2 \in SentVariants(tariff[1]) :
              \A rb2 \in ReadbackVariants(readback[1]) :
                  Outcome(_verify_tariff(rb2, t2)) = verified[1]
        /\ (readback[1] \in FullReadbacks(tariff[1]) /\ StoredRates = SentRates) =>
              verified[1] = "true"

C20_Witness ==
    /\ VerifyCalled
    /\ readback[1] \in FullReadbacks(tariff[1])
    /\ StoredRates = SentRates
    /\ StoredSellRates # tariff[1].sell_tariff.energy_charges.Summer.rates
    /\ verified[1] = "true"

(***************************************************************************)
(* The result event and the failure notification (checked under Spec)      *)
(***************************************************************************)
\* invocation c leaves the handler in this step, by returning or by an
\* exception
EndsNow(c) ==
    /\ c \in 1..Len(pc')
    /\ Ended(pc'[c])
    /\ c > Len(pc) \/ ~Ended(pc[c])

\* invocation c leaves the handler in this step with a failure outcome
FailsNow(c) ==
    /\ EndsNow(c)
    /\ pc'[c] = "done"
    /\ events'[c] # <<>>
    /\ ~events'[c][Len(events'[c])].success

\* up to and including this step every invocation began after the earlier
\* ones had ended
OneAtATime == ~overlapped'

\* C15: when a push completes with a failure outcome (validation error,
\* permanent failure, retries exhausted) the failure notification is present
\* after it
C15_FailureRaisesNotification ==
    [][\A c \in 1..Len(pc') : FailsNow(c) => notification']_vars

\* C16: across pushes made one after the other the notification is sticky:
\* it is absent after every push whose delivery succeeded, it goes away only
\* by such a push, and it stays through pushes that fail
C16_StickyNotification ==
    [][OneAtATime =>
          /\ \A c \in 1..Len(pc') :
                (EndsNow(c) /\ send_result'[c].success) => ~notification'
          /\ (notification /\ ~notification') =>
                \E c \in 1..Len(pc') : EndsNow(c) /\ send_result'[c].success
          /\ \A c \in 1..Len(pc') :
                (notification /\ EndsNow(c) /\ ~send_result'[c].success) =>
                    notification'
      ]_vars

\* C18: every push ends by firing exactly one result event, and no exception
\* leaves the handler in place of the event
C18_ExactlyOneResultEvent ==
    \A c \in Calls :
        /\ pc[c] # "raised"
        /\ pc[c] = "done" => Len(events[c]) = 1
        /\ Len(events[c]) <= 1

=============================================================================
